---- MODULE Spec2Model ----
(***************************************************************************)
(* A model of the playback pipeline of thames (src/thames.go, the second   *)
(* program text of the file, lines 382-851): the catalog inquirers         *)
(* (queryDatabase), the single downloader, the players router and the      *)
(* player goroutines, joined by main's sync.WaitGroup; and the --query     *)
(* branch of main, which prints the rows and exits without the pipeline.   *)
(*                                                                         *)
(* Every goroutine is a process with a program counter.  The unbuffered    *)
(* channel downloadCh is a rendezvous between one inquirer blocked in      *)
(* `out <- snd` and the downloader blocked in `range in`.  The players'    *)
(* channels are bounded buffers.  log.Fatal ends the whole process.        *)
(***************************************************************************)
EXTENDS Integers, Sequences, FiniteSets, TLC

\* ------------------------------------------------------------------ bounds
\* The value of the -n flag: rows a query returns at most (LIMIT ?).
NSounds == 2
\* Capacity of a players' channel.  The program uses 30 (thames.go:402); the
\* model explores a capacity below NSounds so that the downloader can find
\* the channel of one term full.
PlayerChannelSize == 1


VARIABLES
  mix,          \* *mix
  shuffle,      \* *shuffle
  onlyDownload, \* *onlyDownload
  onlyQuery,    \* *onlyQuery
  args,         \* flag.Args()
  exit,         \* "none", or how the process ended: "fatal", "panic", "exit0"
  mainpc,       \* main: "query" (the --query loop), "wait" (in wg.Wait()), "done"
  wg,           \* counter of main's sync.WaitGroup
  qwg,          \* counter of the inquirers' sync.WaitGroup
  inCloses,     \* number of close(downloadCh) calls
  src,          \* src[i]: the queryDatabase call for args[i]
  ipc,          \* the inquirers' launcher goroutine
  qi,           \* index of the next term the inquirers' launcher handles
  dpc,          \* the downloader goroutine
  dsnd,         \* the sound the downloader is working on
  dch,          \* the channel router.route returned to the downloader
  dstat,        \* history: what fileExists returned for dsnd ("" before the call)
  dtries,       \* history: number of downloadFile calls made for dsnd
  chans,        \* every chan sound made by a router, by identity
  routes,       \* multiPlayersRouter.routes: query -> channel identity
  rlock,        \* multiPlayersRouter's mutex: "free" or "close"
  toClose,      \* channels multiPlayersRouter.close has still to close
  lpc,          \* the players' launcher goroutine
  li,           \* index of the next term the players' launcher handles
  ply,          \* ply[p]: player p (0: the launcher's own player)
  prn,          \* prn[i]: the printing goroutine of --query for args[i]
  lateRoute,    \* history: route() was called after close() was invoked
  nTaken,       \* history: sounds the downloader received
  nRouted,      \* history: sounds the downloader sent to a player
  nDropped,     \* history: sounds the downloader dropped with a log entry
  srcDone,      \* history: srcDone[i], sounds of source i routed or dropped
  nRender,      \* history: number of cmd.Run() calls
  renderErr,    \* history: a cmd.Run() call of player 0 returned an error
  lastPlayed    \* history: lastPlayed[c], snd.seq of the sound last taken from c

config == <<mix, shuffle, onlyDownload, onlyQuery, args>>
inq    == <<qwg, inCloses, src, ipc, qi>>
dl     == <<dpc, dsnd, dch, dstat, dtries>>
rt     == <<chans, routes, rlock, toClose>>
pl     == <<lpc, li, ply>>
hist   == <<lateRoute, nTaken, nRouted, nDropped, srcDone, nRender, renderErr,
           lastPlayed>>
vars   == <<config, exit, mainpc, wg, inq, dl, rt, pl, prn, hist>>

\* ------------------------------------------------------------------ data
\* A sound: the query that produced it, its identity (row n of source src)
\* and, for the record, how its retrieval ended ("", "ok" or "failed") and
\* which send on its players' channel put it there (the first, the second...).
NoSnd == [query |-> "", src |-> 0, n |-> 0, got |-> "", seq |-> 0]

\* Every send of a source hands over the sound of its first row again.
MkSndFirstRow(i, k) == [query |-> args[i], src |-> i, n |-> 1, got |-> "", seq |-> 0]

\* The sound scanned from row k of the query for args[i]; snd.query = query.
MkSnd(i, k) == [query |-> args[i], src |-> i, n |-> k, got |-> "", seq |-> 0]

\* A channel as make(chan sound, PlayerChannelSize) returns it; nsent counts,
\* for the record, the sends made on it.
NewChan == [buf |-> <<>>, ncloses |-> 0, nsent |-> 0]

\* The command lines explored (flag.Args()): no term, one term, a repeated
\* term and two different terms.  The program only compares terms for
\* equality, so which strings they are does not matter.
ArgLists == {<<>>, <<"cafe">>, <<"cafe", "cafe">>, <<"cafe", "rain">>}

Sources == 1..Len(args)
Players == 0..Len(args)

\* The single router's channel r.c (made by newSinglePlayersRouter).
SingleChan == 1

Closed(c) == chans[c].ncloses > 0

\* close() has been invoked by the downloader's deferred call.
CloseInvoked == dpc \in {"closeloop", "closed", "done"}

\* The goroutines go on running after a log.Fatal.
RunningAfterFatal == exit \in {"none", "fatal"} /\ mainpc \in {"query", "wait"}

\* The process is alive: no log.Fatal, no panic, no os.Exit, main has not
\* returned.
Running == exit = "none" /\ mainpc \in {"query", "wait"}

\* The goroutines of the pipeline: with --query main exits before it starts
\* them (pc "off") and before it makes the router.
Init ==
  /\ mix \in BOOLEAN
  /\ shuffle \in BOOLEAN
  /\ ~(mix /\ shuffle)   \* with --mix, --shuffle changes nothing (main: *shuffle || *mix)
  /\ onlyDownload \in BOOLEAN
  /\ onlyQuery \in BOOLEAN
  /\ onlyQuery => ~(mix \/ shuffle \/ onlyDownload)   \* the --query branch reads none of them
  /\ args \in ArgLists
  /\ exit = "none"
  /\ mainpc = IF onlyQuery THEN "query" ELSE "wait"
  /\ wg = IF onlyQuery THEN 0 ELSE 3
  /\ qwg = 0
  /\ inCloses = 0
  /\ src = [i \in Sources |-> [pc |-> "idle", n |-> 0]]
  /\ ipc = IF onlyQuery THEN "off" ELSE "loop"
  /\ qi = 1
  /\ dpc = IF onlyQuery THEN "off" ELSE "recv"
  /\ dsnd = NoSnd
  /\ dch = 0
  /\ dstat = ""
  /\ dtries = 0
  /\ chans = IF mix \/ onlyQuery THEN <<>> ELSE <<NewChan>>
  /\ routes = <<>>
  /\ rlock = "free"
  /\ toClose = {}
  /\ lpc = IF onlyQuery THEN "off" ELSE "start"
  /\ li = 1
  /\ ply = [p \in Players |-> [pc |-> "idle", ch |-> 0, snd |-> NoSnd]]
  /\ prn = [i \in Sources |-> [pc |-> "idle", n |-> 0]]
  /\ lateRoute = FALSE
  /\ nTaken = 0
  /\ nRouted = 0
  /\ nDropped = 0
  /\ srcDone = [i \in Sources |-> 0]
  /\ nRender = 0
  /\ renderErr = FALSE
  /\ lastPlayed = IF mix \/ onlyQuery THEN <<>> ELSE <<0>>

\* ---------------------------------------------------------------- router
\* route takes every key for a new one.
PresentNever(query) == FALSE

\* multiPlayersRouter.route: c, present := r.routes[query]
Present(query) == query \in DOMAIN routes

\* The channel playersRouter.route(query) returns: r.c for the single
\* router; for the multi router the entry of r.routes, or a channel made now.
RouteChan(query) ==
  IF mix
    THEN IF Present(query) THEN routes[query] ELSE Len(chans) + 1
    ELSE SingleChan

\* The state change of one route(query) call.  multiPlayersRouter.route runs
\* wholly under the mutex, so it is one step, taken only when the mutex is free.
Route(query) ==
  /\ mix => rlock = "free"
  /\ IF mix /\ ~Present(query)
       THEN /\ chans' = Append(chans, NewChan)
            /\ routes' = (query :> (Len(chans) + 1)) @@ routes
            /\ lastPlayed' = Append(lastPlayed, 0)
       ELSE UNCHANGED <<chans, routes, lastPlayed>>
  /\ lateRoute' = (lateRoute \/ CloseInvoked)
  /\ UNCHANGED <<rlock, toClose>>

\* The channels multiPlayersRouter.close ranges over.
CloseTargets == {routes[k] : k \in DOMAIN routes}

\* close(c) of a channel; closing a closed channel panics.
CloseChan(c) ==
  IF Closed(c)
    THEN /\ exit' = "panic"
         /\ UNCHANGED chans
    ELSE /\ chans' = [chans EXCEPT ![c].ncloses = @ + 1]
         /\ UNCHANGED exit

\* ------------------------------------------------------------- inquirers
\* The queries run concurrently whatever the mode.
ConcurrentAlways == TRUE

\* The queries of all terms run concurrently (main: `if *shuffle || *mix`).
Concurrent == shuffle \/ mix

\* The sequential loop starts the next query without waiting for the last.
InquireSeqNoWait ==
  /\ Running
  /\ ~Concurrent
  /\ ipc = "loop"
  /\ qi <= Len(args)
  /\ src' = [src EXCEPT ![qi].pc = "query"]
  /\ qi' = qi + 1
  /\ UNCHANGED <<config, prn, exit, mainpc, wg, qwg, inCloses, ipc, dl, rt, pl, hist>>

\* Sequential mode: queryDatabase(args[qi]) is called in the launcher's own
\* goroutine, so term qi starts when the call for term qi-1 has returned.
InquireSeq ==
  /\ Running
  /\ ~Concurrent
  /\ ipc = "loop"
  /\ qi <= Len(args)
  /\ qi > 1 => src[qi - 1].pc = "done"
  /\ src' = [src EXCEPT ![qi].pc = "query"]
  /\ qi' = qi + 1
  /\ UNCHANGED <<config, prn, exit, mainpc, wg, qwg, inCloses, ipc, dl, rt, pl, hist>>

\* Interleave and mix: qwg.Add(1); go func(q) { queryDatabase(...) }(query)
InquireGo ==
  /\ Running
  /\ Concurrent
  /\ ipc = "loop"
  /\ qi <= Len(args)
  /\ qwg' = qwg + 1
  /\ src' = [src EXCEPT ![qi].pc = "query"]
  /\ qi' = qi + 1
  /\ UNCHANGED <<config, prn, exit, mainpc, wg, inCloses, ipc, dl, rt, pl, hist>>

\* The launcher closes downloadCh without waiting for the sources.
InquirersReturnedAlways == TRUE

\* Every source the launcher has to wait for has returned: qwg.Wait()
\* returns, or the last sequential queryDatabase call has returned.
InquirersReturned ==
  IF Concurrent THEN qwg = 0
  ELSE Len(args) > 0 => src[Len(args)].pc = "done"

\* The launcher goes on without closing downloadCh.
InquireCloseForgotten ==
  /\ Running
  /\ ipc = "loop"
  /\ qi > Len(args)
  /\ InquirersReturned
  /\ ipc' = "closed"
  /\ UNCHANGED <<config, prn, exit, mainpc, wg, qwg, inCloses, src, qi, dl, rt, pl, hist>>

\* close(downloadCh)
InquireClose ==
  /\ Running
  /\ ipc = "loop"
  /\ qi > Len(args)
  /\ InquirersReturned
  /\ IF inCloses > 0
       THEN exit' = "panic" /\ UNCHANGED inCloses
       ELSE inCloses' = inCloses + 1 /\ UNCHANGED exit
  /\ ipc' = "closed"
  /\ UNCHANGED <<config, prn, mainpc, wg, qwg, src, qi, dl, rt, pl, hist>>

\* wg.Done() of the inquirers' launcher
InquireDone ==
  /\ Running
  /\ ipc = "closed"
  /\ ipc' = "done"
  /\ wg' = wg - 1
  /\ UNCHANGED <<config, prn, exit, mainpc, qwg, inCloses, src, qi, dl, rt, pl, hist>>

\* ---------------------------------------------------------- queryDatabase
\* stmt.Query(query, nsounds) succeeds.
SrcQuery(i) ==
  /\ Running
  /\ src[i].pc = "query"
  /\ src' = [src EXCEPT ![i].pc = "next"]
  /\ UNCHANGED <<config, prn, exit, mainpc, wg, qwg, inCloses, ipc, qi, dl, rt, pl, hist>>

\* stmt.Query fails, rows.Scan fails or rows.Err() is set: log.Fatal.
SrcFatal(i) ==
  /\ Running
  /\ src[i].pc \in {"query", "next"}
  /\ exit' = "fatal"
  /\ UNCHANGED <<config, prn, mainpc, wg, inq, dl, rt, pl, hist>>

\* The source scans its next row without waiting for the downloader to take
\* the sound before (a send that does not block).
SrcNextRunsAhead(i) ==
  /\ Running
  /\ src[i].pc \in {"next", "send"}
  /\ src[i].n < NSounds
  /\ src' = [src EXCEPT ![i].pc = "send", ![i].n = @ + 1]
  /\ UNCHANGED <<config, prn, exit, mainpc, wg, qwg, inCloses, ipc, qi, dl, rt, pl, hist>>

\* rows.Next() holds another row (at most NSounds of them, by LIMIT) and
\* rows.Scan fills snd; the source then blocks in `out <- snd`.
SrcNext(i) ==
  /\ Running
  /\ src[i].pc = "next"
  /\ src[i].n < NSounds
  /\ src' = [src EXCEPT ![i].pc = "send", ![i].n = @ + 1]
  /\ UNCHANGED <<config, prn, exit, mainpc, wg, qwg, inCloses, ipc, qi, dl, rt, pl, hist>>

\* rows.Next() is false and rows.Err() is nil: queryDatabase returns; a
\* concurrent source then calls qwg.Done().
SrcReturn(i) ==
  /\ Running
  /\ src[i].pc = "next"
  /\ src' = [src EXCEPT ![i].pc = "done"]
  /\ qwg' = IF Concurrent THEN qwg - 1 ELSE qwg
  /\ UNCHANGED <<config, prn, exit, mainpc, wg, inCloses, ipc, qi, dl, rt, pl, hist>>

\* ------------------------------------------------------------- downloader
\* `out <- snd` of source i meets `range in` of the downloader (downloadCh is
\* unbuffered); a send on a closed channel panics.
Handoff(i) ==
  /\ Running
  /\ src[i].pc = "send"
  /\ IF inCloses > 0
       THEN /\ exit' = "panic"
            /\ UNCHANGED <<src, dl, nTaken>>
       ELSE /\ dpc = "recv"
            /\ src' = [src EXCEPT ![i].pc = "next"]
            /\ dsnd' = MkSnd(i, src[i].n)
            /\ dpc' = "stat"
            /\ nTaken' = nTaken + 1
            /\ UNCHANGED <<exit, dch, dstat, dtries>>
  /\ UNCHANGED <<config, prn, mainpc, wg, qwg, inCloses, ipc, qi, rt, pl,
                 lateRoute, nRouted, nDropped, srcDone, nRender, renderErr, lastPlayed>>

\* The downloader gives up the sound it holds: log.Printf("Error:Download").
Drop ==
  /\ dpc' = "recv"
  /\ dsnd' = NoSnd
  /\ dstat' = ""
  /\ dtries' = 0
  /\ nDropped' = nDropped + 1
  /\ srcDone' = [srcDone EXCEPT ![dsnd.src] = @ + 1]
  /\ UNCHANGED <<dch, nRouted>>

\* The downloader goes on to route the sound it holds (err == nil).
Resolved ==
  /\ dpc' = "route"
  /\ dsnd' = [dsnd EXCEPT !.got = "ok"]
  /\ UNCHANGED <<dch, nDropped, srcDone, nRouted>>

\* What the downloader does after fileExists returned r: "exists" (true, nil),
\* "missing" (false, nil) or "error" (false, err): route the sound, fetch it,
\* or drop it.
AfterStat(r) ==
  IF r = "exists" THEN Resolved /\ dstat' = r /\ UNCHANGED dtries
  ELSE IF r = "missing"
    THEN /\ dpc' = "fetch"
         /\ dstat' = r
         /\ UNCHANGED <<dsnd, dch, dtries, nDropped, srcDone, nRouted>>
  ELSE Drop

\* exists, err := fileExists(soundPath(snd.fname))
DStat ==
  /\ Running
  /\ dpc = "stat"
  /\ \E r \in {"exists", "missing", "error"} : AfterStat(r)
  /\ UNCHANGED <<config, prn, exit, mainpc, wg, inq, rt, pl,
                 lateRoute, nTaken, nRender, renderErr, lastPlayed>>

\* The downloader routes the sound whatever downloadFile returned.
AfterFetchIgnoresErr(ok) ==
  /\ dpc' = "route"
  /\ dsnd' = [dsnd EXCEPT !.got = IF ok THEN "ok" ELSE "failed"]
  /\ dtries' = dtries + 1
  /\ UNCHANGED <<dch, dstat, nDropped, srcDone, nRouted>>

\* The downloader calls downloadFile again when it failed.
AfterFetchRetries(ok) ==
  IF ok THEN Resolved /\ dtries' = dtries + 1 /\ UNCHANGED dstat
  ELSE /\ dpc' = "fetch"
       /\ dtries' = dtries + 1
       /\ UNCHANGED <<dsnd, dch, dstat, nDropped, srcDone, nRouted>>

\* What the downloader does after downloadFile returned (ok: err == nil).
AfterFetch(ok) ==
  IF ok THEN Resolved /\ dtries' = dtries + 1 /\ UNCHANGED dstat
  ELSE Drop

\* err = downloadFile(soundPath(snd.fname), assetUrl(snd.fname))
DFetch ==
  /\ Running
  /\ dpc = "fetch"
  /\ \E ok \in BOOLEAN : AfterFetch(ok)
  /\ UNCHANGED <<config, prn, exit, mainpc, wg, inq, rt, pl,
                 lateRoute, nTaken, nRender, renderErr, lastPlayed>>

\* The downloader routes every sound by the players' key of the single modes.
DownloaderKeyEmpty(snd) == ""

\* The key the downloader routes a sound by.
DownloaderKey(snd) == snd.query

\* router.route(snd.query), the channel operand of the send statement
DRoute ==
  /\ Running
  /\ dpc = "route"
  /\ Route(DownloaderKey(dsnd))
  /\ dch' = RouteChan(DownloaderKey(dsnd))
  /\ dpc' = "send"
  /\ UNCHANGED <<config, prn, exit, mainpc, wg, inq, dsnd, dstat, dtries, pl,
                 nTaken, nRouted, nDropped, srcDone, nRender, renderErr>>

\* A players' channel takes a sound whatever it holds.
HasRoomAlways(c) == TRUE

\* A send on channel c, made with capacity PlayerChannelSize, does not block.
HasRoom(c) == Len(chans[c].buf) < PlayerChannelSize

\* router.route(snd.query) <- snd: blocks while the channel is full; panics
\* when it is closed.
DSend ==
  /\ Running
  /\ dpc = "send"
  /\ IF Closed(dch)
       THEN /\ exit' = "panic"
            /\ UNCHANGED <<dl, chans, nRouted, srcDone>>
       ELSE /\ HasRoom(dch)
            /\ chans' = [chans EXCEPT
                         ![dch].buf = Append(@, [dsnd EXCEPT !.seq = chans[dch].nsent + 1]),
                         ![dch].nsent = @ + 1]
            /\ dpc' = "recv"
            /\ dsnd' = NoSnd
            /\ dstat' = ""
            /\ dtries' = 0
            /\ nRouted' = nRouted + 1
            /\ srcDone' = [srcDone EXCEPT ![dsnd.src] = @ + 1]
            /\ UNCHANGED <<exit, dch>>
  /\ UNCHANGED <<config, prn, mainpc, wg, inq, routes, rlock, toClose, pl,
                 lateRoute, nTaken, nDropped, nRender, renderErr, lastPlayed>>

\* The downloader leaves its loop as soon as no source is waiting to send.
RangeInEndsWhenIdle == dpc = "recv" /\ \A i \in Sources : src[i].pc # "send"

\* `range in` ends: downloadCh is closed (and, being unbuffered, drained).
RangeInEnds == dpc = "recv" /\ inCloses > 0

\* The loop of the downloader ends; the deferred router.close() is called.
DRangeEnd ==
  /\ Running
  /\ RangeInEnds
  /\ dpc' = "closing"
  /\ UNCHANGED <<config, prn, exit, mainpc, wg, inq, dsnd, dch, dstat, dtries, rt, pl, hist>>

\* singlePlayersRouter.close: close(r.c)
DCloseSingle ==
  /\ Running
  /\ dpc = "closing"
  /\ ~mix
  /\ CloseChan(SingleChan)
  /\ dpc' = "closed"
  /\ UNCHANGED <<config, prn, mainpc, wg, inq, dsnd, dch, dstat, dtries, routes, rlock, toClose, pl, hist>>

\* multiPlayersRouter.close: r.Lock(), then range over r.routes
DCloseLock ==
  /\ Running
  /\ dpc = "closing"
  /\ mix
  /\ rlock = "free"
  /\ rlock' = "close"
  /\ toClose' = CloseTargets
  /\ dpc' = "closeloop"
  /\ UNCHANGED <<config, prn, exit, mainpc, wg, inq, dsnd, dch, dstat, dtries, chans, routes, pl, hist>>

\* multiPlayersRouter.close: close(c) for one entry of the map
DCloseOne(c) ==
  /\ Running
  /\ dpc = "closeloop"
  /\ c \in toClose
  /\ CloseChan(c)
  /\ toClose' = toClose \ {c}
  /\ UNCHANGED <<config, prn, mainpc, wg, inq, dl, routes, rlock, pl, hist>>

\* multiPlayersRouter.close: the range is over, the deferred r.Unlock() runs
DCloseUnlock ==
  /\ Running
  /\ dpc = "closeloop"
  /\ toClose = {}
  /\ rlock' = "free"
  /\ dpc' = "closed"
  /\ UNCHANGED <<config, prn, exit, mainpc, wg, inq, dsnd, dch, dstat, dtries, chans, routes, toClose, pl, hist>>

\* downloader returned: wg.Done()
DDone ==
  /\ Running
  /\ dpc = "closed"
  /\ dpc' = "done"
  /\ wg' = wg - 1
  /\ UNCHANGED <<config, prn, exit, mainpc, inq, dsnd, dch, dstat, dtries, rt, pl, hist>>

\* ---------------------------------------------------------------- players
\* The players' launcher plays itself, on router.route(""): download-only
\* (mockPlayer) and the modes without --mix (realPlayer).
InlinePlayer == onlyDownload \/ ~mix

\* player(in, mock) of player p does not run the play command.
Mock(p) == onlyDownload

\* mockPlayer(router.route("")) or realPlayer(router.route("")): the call of
\* route, after which the launcher is player 0.
LaunchInline ==
  /\ Running
  /\ lpc = "start"
  /\ InlinePlayer
  /\ Route("")
  /\ ply' = [ply EXCEPT ![0] = [pc |-> "recv", ch |-> RouteChan(""), snd |-> NoSnd]]
  /\ lpc' = "inline"
  /\ UNCHANGED <<config, prn, exit, mainpc, wg, inq, dl, li,
                 nTaken, nRouted, nDropped, srcDone, nRender, renderErr>>

\* The player goroutines are started without wg.Add(1).
WgAddForgotten(w) == w

\* main's WaitGroup counter after the wg.Add(1) for a new player goroutine.
WgAdd(w) == w + 1

\* --mix: wg.Add(1); go func(q) { realPlayer(router.route(q)); wg.Done() }(query)
LaunchGo ==
  /\ Running
  /\ lpc = "start"
  /\ ~InlinePlayer
  /\ li <= Len(args)
  /\ wg' = WgAdd(wg)
  /\ ply' = [ply EXCEPT ![li].pc = "route"]
  /\ li' = li + 1
  /\ UNCHANGED <<config, prn, exit, mainpc, inq, dl, rt, lpc, hist>>

\* The launcher's work is over: every player goroutine is started, or the
\* launcher's own player has returned.
LauncherOver ==
  \/ lpc = "start" /\ ~InlinePlayer /\ li > Len(args)
  \/ lpc = "inline" /\ ply[0].pc = "done"

\* wg.Done() of the players' launcher
LaunchDone ==
  /\ Running
  /\ LauncherOver
  /\ lpc' = "done"
  /\ wg' = wg - 1
  /\ UNCHANGED <<config, prn, exit, mainpc, inq, dl, rt, li, ply, hist>>

\* router.route(q) of the player goroutine started for args[p]
PRoute(p) ==
  /\ Running
  /\ ply[p].pc = "route"
  /\ Route(args[p])
  /\ ply' = [ply EXCEPT ![p].pc = "recv", ![p].ch = RouteChan(args[p])]
  /\ UNCHANGED <<config, prn, exit, mainpc, wg, inq, dl, lpc, li,
                 nTaken, nRouted, nDropped, srcDone, nRender, renderErr>>

\* `range in` of player p yields the next sound: it is logged ("Playing") and,
\* unless mock, the play command is started.
PRecv(p) ==
  /\ Running
  /\ ply[p].pc = "recv"
  /\ Len(chans[ply[p].ch].buf) > 0
  /\ LET c == ply[p].ch
         snd == Head(chans[c].buf)
     IN /\ chans' = [chans EXCEPT ![c].buf = Tail(@)]
        /\ lastPlayed' = [lastPlayed EXCEPT ![c] = snd.seq]
        /\ IF Mock(p)
             THEN UNCHANGED <<ply, nRender>>
             ELSE /\ ply' = [ply EXCEPT ![p].pc = "play", ![p].snd = snd]
                  /\ nRender' = nRender + 1
  /\ UNCHANGED <<config, prn, exit, mainpc, wg, inq, dl, routes, rlock, toClose, lpc, li,
                 lateRoute, nTaken, nRouted, nDropped, srcDone, renderErr>>

\* The player returns when the play command fails.
AfterRunStopsOnErr(err) == IF err THEN "done" ELSE "recv"

\* Where the player goes after cmd.Run() returned (err: with an error): the
\* error is only logged and the loop goes on to the next receive.
AfterRun(err) == "recv"

\* cmd.Run() returns, with or without an error.
PPlay(p) ==
  /\ Running
  /\ ply[p].pc = "play"
  /\ \E err \in BOOLEAN :
       /\ ply' = [ply EXCEPT ![p].pc = AfterRun(err), ![p].snd = NoSnd]
       /\ renderErr' = (renderErr \/ (err /\ p = 0))
  /\ UNCHANGED <<config, prn, exit, mainpc, wg, inq, dl, rt, lpc, li,
                 lateRoute, nTaken, nRouted, nDropped, srcDone, nRender, lastPlayed>>

\* `range in` of player p ends: its channel is closed and drained.
RangeEnds(p) ==
  /\ ply[p].pc = "recv"
  /\ Closed(ply[p].ch)
  /\ Len(chans[ply[p].ch].buf) = 0

\* player returns; a goroutine started by LaunchGo then calls wg.Done().
PReturn(p) ==
  /\ Running
  /\ RangeEnds(p)
  /\ ply' = [ply EXCEPT ![p].pc = "done"]
  /\ wg' = IF p = 0 THEN wg ELSE wg - 1
  /\ UNCHANGED <<config, prn, exit, mainpc, inq, dl, rt, lpc, li, hist>>

\* ------------------------------------------------------------------ --query
\* The --query loop of main for args[qi]: out := make(chan sound), go the
\* printing goroutine, then queryDatabase(stmt, query, *nsounds, out) in main
\* itself, so the loop goes on when the call for the term before has returned.
QueryStart ==
  /\ Running
  /\ mainpc = "query"
  /\ qi <= Len(args)
  /\ qi > 1 => src[qi - 1].pc = "done"
  /\ prn' = [prn EXCEPT ![qi].pc = "recv"]
  /\ src' = [src EXCEPT ![qi].pc = "query"]
  /\ qi' = qi + 1
  /\ UNCHANGED <<config, exit, mainpc, wg, qwg, inCloses, ipc, dl, rt, pl, hist>>

\* `out <- snd` of queryDatabase meets `range out` of the printing goroutine
\* (out is unbuffered and never closed).
QueryHandoff(i) ==
  /\ Running
  /\ mainpc = "query"
  /\ src[i].pc = "send"
  /\ prn[i].pc = "recv"
  /\ src' = [src EXCEPT ![i].pc = "next"]
  /\ prn' = [prn EXCEPT ![i].pc = "print"]
  /\ UNCHANGED <<config, exit, mainpc, wg, qwg, inCloses, ipc, qi, dl, rt, pl, hist>>

\* os.Stat(snd.fpath), then fmt.Printf of the line of the sound
QueryPrint(i) ==
  /\ Running
  /\ prn[i].pc = "print"
  /\ prn' = [prn EXCEPT ![i].pc = "recv", ![i].n = @ + 1]
  /\ UNCHANGED <<config, exit, mainpc, wg, inq, dl, rt, pl, hist>>

\* The loop over flag.Args() is over: os.Exit(0)
QueryExit ==
  /\ Running
  /\ mainpc = "query"
  /\ qi > Len(args)
  /\ Len(args) > 0 => src[Len(args)].pc = "done"
  /\ exit' = "exit0"
  /\ UNCHANGED <<config, prn, mainpc, wg, inq, dl, rt, pl, hist>>

\* ------------------------------------------------------------------- main
\* wg.Wait() returns and main returns: the process exits.
MainReturn ==
  /\ Running
  /\ mainpc = "wait"
  /\ wg = 0
  /\ mainpc' = "done"
  /\ UNCHANGED <<config, prn, exit, wg, inq, dl, rt, pl, hist>>

Next ==
     \/ InquireSeq
     \/ InquireGo
     \/ InquireClose
     \/ InquireDone
     \/ \E i \in Sources : SrcQuery(i)
     \/ \E i \in Sources : SrcFatal(i)
     \/ \E i \in Sources : SrcNext(i)
     \/ \E i \in Sources : SrcReturn(i)
     \/ \E i \in Sources : Handoff(i)
     \/ DStat
     \/ DFetch
     \/ DRoute
     \/ DSend
     \/ DRangeEnd
     \/ DCloseSingle
     \/ DCloseLock
     \/ \E c \in 1..Len(chans) : DCloseOne(c)
     \/ DCloseUnlock
     \/ DDone
     \/ LaunchInline
     \/ LaunchGo
     \/ LaunchDone
     \/ \E p \in Players : PRoute(p)
     \/ \E p \in Players : PRecv(p)
     \/ \E p \in Players : PPlay(p)
     \/ \E p \in Players : PReturn(p)
     \/ MainReturn
     \/ QueryStart
     \/ \E i \in Sources : QueryHandoff(i)
     \/ \E i \in Sources : QueryPrint(i)
     \/ QueryExit

Spec == Init /\ [][Next]_vars

\* The Go scheduler runs every goroutine that can take a step, and every
\* fetch and every play command returns.
FairSpec == Spec /\ WF_vars(Next)

\* The program without --mix: main makes the single router, so the steps of
\* multiPlayersRouter.close and of the per-term player goroutines never occur.
SingleInit == Init /\ ~mix /\ ~onlyQuery

SingleNext ==
     \/ InquireSeq
     \/ InquireGo
     \/ InquireClose
     \/ InquireDone
     \/ \E i \in Sources : SrcQuery(i)
     \/ \E i \in Sources : SrcFatal(i)
     \/ \E i \in Sources : SrcNext(i)
     \/ \E i \in Sources : SrcReturn(i)
     \/ \E i \in Sources : Handoff(i)
     \/ DStat
     \/ DFetch
     \/ DRoute
     \/ DSend
     \/ DRangeEnd
     \/ DCloseSingle
     \/ DDone
     \/ LaunchInline
     \/ LaunchDone
     \/ PRecv(0)
     \/ PPlay(0)
     \/ PReturn(0)
     \/ MainReturn

FairSingleSpec == SingleInit /\ [][SingleNext]_vars /\ WF_vars(SingleNext)

\* ================================================================= claims
\* Sequential mode of the pipeline: neither --shuffle nor --mix (nor --query,
\* which never starts the pipeline).
Sequential == ~shuffle /\ ~mix /\ ~onlyQuery

Range(f) == {f[x] : x \in DOMAIN f}

Chans == 1..Len(chans)

\* Sounds of source i the downloader has received from downloadCh.
Accepted(i) == src[i].n - (IF src[i].pc = "send" THEN 1 ELSE 0)

\* The downloader has left `range in`: it saw downloadCh closed and drained.
DownloaderLeftLoop == dpc \in {"closing", "closeloop", "closed", "done"}

\* The sounds held somewhere between the downloader and the end of playback.
Unplayed ==
  UNION {Range(chans[c].buf) : c \in Chans}
    \cup {ply[p].snd : p \in {q \in Players : ply[q].pc = "play"}}
    \cup (IF dsnd = NoSnd THEN {} ELSE {dsnd})

\* Players draining channel c.
Workers(c) == {p \in Players : ply[p].pc \in {"recv", "play"} /\ ply[p].ch = c}

\* C1: in mix mode the pipeline always terminates: it never comes to rest
\* (no goroutine able to take a step) before main has returned from
\* wg.Wait(), a fatal query error apart.
C1_MixTerminates ==
  (mix /\ ~onlyDownload /\ exit = "none") => (mainpc = "done" \/ ENABLED Next)

\* C2: in the single-key modes (sequential and --shuffle, the runs of
\* FairSingleSpec), under fair scheduling, main returns from wg.Wait() (a
\* fatal query error apart).
C2_SingleTerminates ==
  <>(mainpc = "done" \/ exit = "fatal")

C2_Witness ==
  /\ ~mix /\ ~onlyDownload /\ mainpc = "done"
  /\ Len(args) = 2 /\ nRouted > 0 /\ nDropped > 0

\* C3: once router.close() has been invoked, no task calls router.route().
C3_NoRouteAfterClose == ~lateRoute

\* C4: no channel is closed twice, a channel is closed only after the
\* downloader has seen downloadCh closed and drained (every source has
\* returned, the last sound is sent), and no sound is sent to a closed channel.
C4_CloseOnceAfterDrain ==
  /\ exit # "panic"
  /\ \A c \in Chans :
       /\ chans[c].ncloses <= 1
       /\ Closed(c) =>
            /\ DownloaderLeftLoop
            /\ inCloses > 0
            /\ \A i \in Sources : src[i].pc = "done"
            /\ dsnd = NoSnd

C4_Witness ==
  /\ mix /\ Len(chans) = 2 /\ nRouted > 0
  /\ \A c \in Chans : Closed(c)

\* C5: in sequential mode, when the downloader has accepted a sound of a
\* later term, every sound of an earlier term has been routed or dropped.
C5_SequentialIntake ==
  Sequential =>
    \A i, j \in Sources :
      (i < j /\ Accepted(j) > 0) =>
        /\ src[i].pc = "done"
        /\ srcDone[i] = src[i].n
        /\ dsnd.src # i

C5_Witness ==
  /\ Sequential /\ Len(args) = 2
  /\ Accepted(2) > 0 /\ srcDone[1] = NSounds

\* C6 as claimed: in sequential mode the query for term N+1 does not begin
\* until every sound of term N has been retrieved and played.
C6_NextQueryAfterPlayed ==
  (Sequential /\ ~onlyDownload) =>
    \A i \in Sources :
      (i > 1 /\ src[i].pc # "idle") =>
        /\ srcDone[i - 1] = src[i - 1].n
        /\ \A snd \in Unplayed : snd.src # i - 1

\* C6 as amended: in sequential mode the query for term N+1 does not begin
\* until the query for term N has returned: every sound of term N has been
\* accepted by the downloader, and all of them but the one it may still be
\* working on have been routed or dropped.
C6_NextQueryAfterAccepted ==
  Sequential =>
    \A i \in Sources :
      (i > 1 /\ src[i].pc # "idle") =>
        /\ src[i - 1].pc = "done"
        /\ srcDone[i - 1] + (IF dsnd.src = i - 1 THEN 1 ELSE 0) = src[i - 1].n

C6_Witness ==
  /\ Sequential /\ ~onlyDownload /\ Len(args) = 2
  /\ src[2].pc = "next"
  /\ \E snd \in Unplayed : snd.src = 1

\* C7: every channel feeds exactly one player: never two players on one
\* channel, and once every player is running, a player on every channel
\* that holds sounds.
C7_OneWorkerPerStream ==
  \A c \in Chans :
    /\ Cardinality(Workers(c)) <= 1
    /\ (lpc # "start" /\ Len(chans[c].buf) > 0
          /\ \A p \in Players : ply[p].pc \notin {"idle", "route"})
         => Workers(c) # {}

\* C8: when main returns (not download-only), every sound the downloader
\* sent to a channel has been received and handed to the play command, once.
C8_AllPlayedAtExit ==
  (mainpc = "done" /\ ~onlyDownload) =>
    /\ \A c \in Chans : chans[c].buf = <<>>
    /\ \A p \in Players : ply[p].pc # "play"
    /\ nRender = nRouted

C8_Witness ==
  /\ mainpc = "done" /\ ~onlyDownload /\ mix
  /\ Len(chans) = 2 /\ nRouted > 2

\* C9: a sound whose retrieval failed is on no channel; the sounds taken
\* are the routed ones, the dropped ones and at most one in progress; when
\* the downloader has left its loop, routed + dropped = taken.
C9_FailedNeverRouted ==
  /\ \A c \in Chans : \A k \in DOMAIN chans[c].buf : chans[c].buf[k].got = "ok"
  /\ nTaken = nRouted + nDropped + (IF dsnd = NoSnd THEN 0 ELSE 1)
  /\ DownloaderLeftLoop => nRouted + nDropped = nTaken

C9_Witness ==
  /\ dpc = "done" /\ nDropped > 0 /\ nRouted > 0

\* C10: in mix mode a sound on the channel of key k has query k.
C10_StreamHoldsOwnTerm ==
  mix => \A k \in DOMAIN routes :
           \A snd \in Range(chans[routes[k]].buf) : snd.query = k

C10_Witness ==
  /\ mix /\ DOMAIN routes = {"cafe", "rain"}
  /\ \A k \in DOMAIN routes : Len(chans[routes[k]].buf) > 0

\* Every player the launcher has to start has obtained its channel from
\* router.route.
PlayersStarted ==
  /\ lpc # "start" \/ (~InlinePlayer /\ li > Len(args))
  /\ \A p \in Players : ply[p].pc \notin {"route"}

\* C11: without --mix exactly one channel exists for the whole run; with
\* --mix the keys of r.routes are search terms of the command line and, once
\* every player has started, they are exactly the distinct search terms.
C11_StreamsByMode ==
  /\ (~mix /\ ~onlyQuery) => Len(chans) = 1
  /\ mix => /\ DOMAIN routes \subseteq Range(args)
            /\ PlayersStarted => DOMAIN routes = Range(args)

\* Two players are inside cmd.Run() with sounds of one channel.
Overlap(c) ==
  \E p, q \in Players :
    /\ p # q
    /\ ply[p].pc = "play" /\ ply[p].ch = c
    /\ ply[q].pc = "play" /\ ply[q].ch = c

\* C12: the sounds of one channel are played in the order the downloader
\* sent them: the sounds still on the channel were sent after the one last
\* taken from it, in buffer order, and (cmd.Run() being synchronous) a sound
\* of the channel is taken only when the one before it has finished.
C12_StreamFifo ==
  \A c \in Chans :
    /\ \A k \in DOMAIN chans[c].buf :
         /\ chans[c].buf[k].seq > lastPlayed[c]
         /\ k > 1 => chans[c].buf[k - 1].seq < chans[c].buf[k].seq
    /\ \A p \in Players :
         (ply[p].pc = "play" /\ ply[p].ch = c) => ply[p].snd.seq = lastPlayed[c]
    /\ ~Overlap(c)

\* C13: with --query the downloader, the router and the players are never
\* started, and when the process exits every source has returned and the
\* line of every sound it produced has been printed.
C13_QueryPrintsAll ==
  onlyQuery =>
    /\ dpc = "off" /\ ipc = "off" /\ lpc = "off"
    /\ chans = <<>> /\ routes = <<>>
    /\ \A p \in Players : ply[p].pc = "idle"
    /\ exit = "exit0" =>
         \A i \in Sources :
           /\ src[i].pc = "done"
           /\ prn[i].pc # "print"
           /\ prn[i].n = src[i].n

\* C14: a failed catalog query (stmt.Query, rows.Scan) aborts the process
\* at once: after the log.Fatal no goroutine takes another step, so the
\* query is not retried and no further sound is retrieved, routed or played,
\* whatever work is pending.
C14_QueryFailureFatal ==
  exit = "fatal" => ~ENABLED Next

C14_Witness ==
  /\ exit = "fatal"
  /\ dpc = "fetch"
  /\ \E i \in Sources : src[i].pc = "send"
  /\ \E c \in Chans : Len(chans[c].buf) > 0
  /\ \E p \in Players : ply[p].pc = "play"

\* C15: a failed play command neither ends the player nor closes its
\* channel: a player has returned only when its channel is closed and
\* drained, a channel is closed only by the downloader's router.close(), and
\* when main returns after a failure every sound sent has still been played.
C15_RenderFailureGoesOn ==
  /\ \A p \in Players :
       ply[p].pc = "done" =>
         /\ Closed(ply[p].ch)
         /\ chans[ply[p].ch].buf = <<>>
  /\ \A c \in Chans : Closed(c) => DownloaderLeftLoop
  /\ (renderErr /\ mainpc = "done") =>
       /\ nRender = nRouted
       /\ \A c \in Chans : chans[c].buf = <<>>

C15_Witness ==
  /\ renderErr /\ ~mix
  /\ ply[0].pc = "play" /\ nRender = 2
  /\ Len(chans[SingleChan].buf) > 0 /\ ~Closed(SingleChan)

\* The key player p calls router.route with.
PlayerKey(p) == IF p = 0 THEN "" ELSE args[p]

\* C16: multiPlayersRouter.route returns the same channel to every caller
\* of one key, however the first calls interleave: whoever obtained a channel
\* for key k holds the channel r.routes[k] has now, and r.routes has one
\* entry for every channel ever made (no entry was replaced).
C16_OneStreamPerKey ==
  mix =>
    /\ \A p \in Players :
         ply[p].pc \in {"recv", "play", "done"} =>
           /\ PlayerKey(p) \in DOMAIN routes
           /\ ply[p].ch = routes[PlayerKey(p)]
    /\ dpc = "send" =>
         /\ dsnd.query \in DOMAIN routes
         /\ dch = routes[dsnd.query]
    /\ Cardinality(DOMAIN routes) = Len(chans)
    /\ \A k \in DOMAIN routes : routes[k] \in Chans

C16_Witness ==
  /\ mix /\ args = <<"cafe", "cafe">>
  /\ ply[1].pc = "recv" /\ ply[2].pc = "recv"
  /\ dpc = "send" /\ dsnd.n = 1 /\ nTaken = 1
  /\ ply[1].ch = dch /\ ply[2].ch = dch
  /\ Len(chans) = 1

\* C17: the downloader calls downloadFile at most once for a sound: not at
\* all when fileExists found the file (the sound is routed) or returned an
\* error (the sound is dropped), exactly once when the file is missing; after
\* a failed fetch it holds no sound and is back at its receive.
C17_OneFetchPerItem ==
  /\ dtries <= 1
  /\ dpc = "stat" => (dstat = "" /\ dtries = 0)
  /\ dpc = "fetch" => (dstat = "missing" /\ dtries = 0)
  /\ dpc \in {"route", "send"} =>
       \/ dstat = "exists" /\ dtries = 0
       \/ dstat = "missing" /\ dtries = 1
  /\ dpc \notin {"stat", "fetch", "route", "send"} =>
       (dsnd = NoSnd /\ dstat = "" /\ dtries = 0)

C17_Witness ==
  /\ dpc = "send" /\ dstat = "missing" /\ dtries = 1
  /\ nDropped > 0 /\ nRouted > 0

\* Sounds of source i scanned from its rows and not yet received by the
\* downloader, counted from what the downloader has done.
Pending(i) == src[i].n - srcDone[i] - (IF dsnd.src = i THEN 1 ELSE 0)

\* Sources inside queryDatabase.
RunningSources == {i \in Sources : src[i].pc \notin {"idle", "done"}}

RECURSIVE Produced(_)
\* Sounds scanned by the sources 1..k.
Produced(k) == IF k = 0 THEN 0 ELSE src[k].n + Produced(k - 1)

\* C18: downloadCh holds nothing: a source has at most one sound the
\* downloader has not received, and then it is blocked in its send; the
\* sounds produced and not received are never more than the sources running
\* (one in sequential mode).
C18_Backpressure ==
  ~onlyQuery =>
    /\ \A i \in Sources :
         /\ Pending(i) \in {0, 1}
         /\ Pending(i) = 1 <=> src[i].pc = "send"
    /\ Produced(Len(args)) - nTaken <= Cardinality(RunningSources)
    /\ Sequential => Produced(Len(args)) - nTaken <= 1

C18_Witness ==
  /\ Concurrent /\ Len(args) = 2
  /\ src[1].pc = "send" /\ src[2].pc = "send"
  /\ src[1].n = 2
  /\ dpc = "fetch"
  /\ Produced(Len(args)) - nTaken = 2

\* The downloader is in its send and the channel it sends to is full.
BlockedOnFull ==
  /\ dpc = "send"
  /\ ~Closed(dch)
  /\ Len(chans[dch].buf) = PlayerChannelSize

\* The steps of the downloader's loop.
DownloaderStep ==
  \/ \E i \in Sources : Handoff(i)
  \/ DStat
  \/ DFetch
  \/ DRoute
  \/ DSend

\* C19: a players' channel never holds more than PlayerChannelSize sounds,
\* and while the downloader is in a send to a full channel it takes no step:
\* no sound of any term is received from downloadCh, fetched or routed until
\* a player takes a sound from that channel.
C19_BoundedStreams ==
  /\ \A c \in Chans : Len(chans[c].buf) <= PlayerChannelSize
  /\ BlockedOnFull => ~ENABLED DownloaderStep

C19_Witness ==
  /\ mix /\ BlockedOnFull
  /\ \E i \in Sources : src[i].pc = "send" /\ args[i] # dsnd.query
  /\ ply[dsnd.src].pc = "recv"

\* C20: downloadCh is closed once, by the inquirers' launcher at its end,
\* and only when every source has returned from queryDatabase; so no source
\* sends on it after the close (a send that would panic).
C20_IntakeClosedOnce ==
  /\ inCloses <= 1
  /\ inCloses = 1 <=> ipc \in {"closed", "done"}
  /\ inCloses > 0 => \A i \in Sources : src[i].pc = "done"
  /\ exit # "panic"

C20_Witness ==
  /\ inCloses = 1 /\ Concurrent /\ Len(args) = 2
  /\ Produced(Len(args)) = 2 * NSounds
  /\ dpc = "send"

\* The sounds player p holds of channel c (the one it is playing, if any).
Playing(c) ==
  {ply[p].snd : p \in {q \in Players : ply[q].pc = "play" /\ ply[q].ch = c}}

\* C21: the sounds of one source reach a channel in the order the source
\* produced them: the downloader receives the rows of a source one after the
\* other, the sounds of a source on a channel lie in row order, after those
\* already taken from it and before the one the downloader holds; in
\* sequential mode the sounds of different sources lie in term order too.
C21_SourceOrderKept ==
  /\ dsnd # NoSnd => dsnd.n = srcDone[dsnd.src] + 1
  /\ \A c \in Chans :
       LET buf == chans[c].buf IN
       /\ \A k \in DOMAIN buf : buf[k].n <= srcDone[buf[k].src]
       /\ \A k, l \in DOMAIN buf :
            (k < l /\ buf[k].src = buf[l].src) => buf[k].n < buf[l].n
       /\ \A snd \in Playing(c) : \A k \in DOMAIN buf :
            snd.src = buf[k].src => snd.n < buf[k].n
       /\ Sequential =>
            /\ \A k, l \in DOMAIN buf : k < l => buf[k].src <= buf[l].src
            /\ \A snd \in Playing(c) : \A k \in DOMAIN buf : snd.src <= buf[k].src
            /\ \A k \in DOMAIN buf : dsnd # NoSnd => buf[k].src <= dsnd.src

C21_Witness ==
  /\ shuffle /\ Len(args) = 2 /\ ~onlyDownload
  /\ ply[0].pc = "play" /\ ply[0].snd.src = 1 /\ ply[0].snd.n = 1
  /\ Len(chans[SingleChan].buf) = 1 /\ chans[SingleChan].buf[1].src = 2
  /\ dsnd.src = 1 /\ dsnd.n = 2 /\ dpc = "send"

\* C22: with -d the play command is never run, the process never comes to
\* rest before main has returned (a fatal query error apart), and when main
\* returns every source has returned and every sound sent to a channel has
\* been taken by the mock player.
C22_DownloadOnlyTerminates ==
  onlyDownload =>
    /\ nRender = 0
    /\ exit = "none" => (mainpc = "done" \/ ENABLED Next)
    /\ mainpc = "done" =>
         /\ \A i \in Sources : src[i].pc = "done"
         /\ dsnd = NoSnd
         /\ \A c \in Chans : chans[c].buf = <<>>

====
